---- MODULE Spec2Model ----
(***************************************************************************)
(* CD-Text pack decoding and entry reassembly (cdtext, src/src/lib.rs).    *)
(*                                                                         *)
(* A byte is a number in 0..255, a slice is a sequence of bytes.  Rust's   *)
(* 0-based index i is the TLA+ index i + 1.  A Rust String is held as the  *)
(* sequence of its UTF-8 bytes: str::from_utf8 validates the bytes and     *)
(* keeps them as they are.  A panic (a failed unwrap, an index out of      *)
(* range, an arithmetic overflow in a build with overflow checks, a failed *)
(* debug_assert) ends the call: pc = "panic" and `panicked` names it.      *)
(***************************************************************************)
EXTENDS Integers, Sequences, FiniteSets, TLC

VARIABLES
    build,          \* the build profile: "debug" or "release"
    input,          \* the caller's byte buffer
    data,           \* CDText.data, the borrowed slice
    length,         \* CDText._length
    pc,             \* position of the caller in construct / iterate / parse
    chunk,          \* 0-based index of the next window of the iterator in use
    subdata,        \* the window last passed to parse_pack (<<>>: none yet)
    decoded,        \* the item last yielded to a caller of iter_pack_chunks
    prev_pack,      \* parse: prev_pack
    payload_buffer, \* parse: payload_buffer
    parsed_data,    \* parse: parsed_data
    steps,          \* number of iterations of the walk begun so far
    panicked,       \* "no", or the kind of panic that ended the call
    returned        \* the entry lists the caller got from earlier calls of parse

vars == <<build, input, data, length, pc, chunk, subdata, decoded, prev_pack,
          payload_buffer, parsed_data, steps, panicked, returned>>

----------------------------------------------------------------------------
(* Bounds of the model. *)

\* at most this many whole 18-byte packs in an input buffer
MaxPacks == 3
\* at most this many bytes after the last whole pack of a buffer
MaxTail == 17
\* at most this many calls of parse on one CDText
MaxCalls == 3

----------------------------------------------------------------------------
(* Program constants. *)

\* a pack is 4 header bytes, 12 payload bytes and 2 CRC bytes
PackLen == 18
PayloadLen == 12
HeaderLen == 4
U8Modulus == 256

----------------------------------------------------------------------------
(* Slices and options. *)

None == <<"None">>
Some(x) == <<"Some", x>>
IsSome(o) == o[1] = "Some"

Min(a, b) == IF a < b THEN a ELSE b

\* s[..n] and s[n..] of Rust, n a 0-based bound with n <= len
Take(s, n) == SubSeq(s, 1, n)
Drop(s, n) == SubSeq(s, n + 1, Len(s))

\* iter().position(|&x| x == 0): 0-based index of the first NUL, or None
RECURSIVE PositionFrom(_, _)
PositionFrom(s, i) ==
    IF i > Len(s) THEN None
    ELSE IF s[i] = 0 THEN Some(i - 1)
    ELSE PositionFrom(s, i + 1)

PositionNul(s) == PositionFrom(s, 1)

\* iter().rev().position(|x| *x != 0): number of trailing NULs before the
\* last non-NUL byte, or None when every byte is NUL
RECURSIVE RevPositionFrom(_, _)
RevPositionFrom(s, k) ==
    IF k >= Len(s) THEN None
    ELSE IF s[Len(s) - k] # 0 THEN Some(k)
    ELSE RevPositionFrom(s, k + 1)

RevPositionNonNul(s) == RevPositionFrom(s, 0)

\* iter().filter(|&x| *x == 0).count()
CountNul(s) == Cardinality({i \in 1..Len(s) : s[i] = 0})

\* before.ends_with(&[0])
EndsWithNul(s) == Len(s) > 0 /\ s[Len(s)] = 0

----------------------------------------------------------------------------
(* Byte arithmetic. *)

\* a & b on unsigned integers, bit by bit
RECURSIVE BitAnd(_, _)
BitAnd(a, b) ==
    IF a = 0 \/ b = 0 THEN 0
    ELSE (a % 2) * (b % 2) + 2 * BitAnd(a \div 2, b \div 2)

\* a >> n on unsigned integers
RECURSIVE Shr(_, _)
Shr(a, n) == IF n = 0 THEN a ELSE Shr(a \div 2, n - 1)

\* u16::from_be_bytes([hi, lo])
FromBeBytes(hi, lo) == hi * U8Modulus + lo

\* 12u8.saturating_sub(p)
SaturatingSub(a, b) == IF b > a THEN 0 ELSE a - b

----------------------------------------------------------------------------
(* Text.  str::from_utf8 accepts exactly the well-formed UTF-8 byte        *)
(* sequences.                                                              *)

InRange(b, lo, hi) == lo <= b /\ b <= hi

IsCont(s, i) == i <= Len(s) /\ InRange(s[i], 128, 191)

RECURSIVE Utf8From(_, _)
Utf8From(s, i) ==
    IF i > Len(s) THEN TRUE
    ELSE LET b == s[i] IN
      IF b <= 127 THEN Utf8From(s, i + 1)
      ELSE IF InRange(b, 194, 223)
        THEN IsCont(s, i + 1) /\ Utf8From(s, i + 2)
      ELSE IF b = 224
        THEN i + 1 <= Len(s) /\ InRange(s[i + 1], 160, 191)
             /\ IsCont(s, i + 2) /\ Utf8From(s, i + 3)
      ELSE IF InRange(b, 225, 236) \/ InRange(b, 238, 239)
        THEN IsCont(s, i + 1) /\ IsCont(s, i + 2) /\ Utf8From(s, i + 3)
      ELSE IF b = 237
        THEN i + 1 <= Len(s) /\ InRange(s[i + 1], 128, 159)
             /\ IsCont(s, i + 2) /\ Utf8From(s, i + 3)
      ELSE IF b = 240
        THEN i + 1 <= Len(s) /\ InRange(s[i + 1], 144, 191)
             /\ IsCont(s, i + 2) /\ IsCont(s, i + 3) /\ Utf8From(s, i + 4)
      ELSE IF InRange(b, 241, 243)
        THEN IsCont(s, i + 1) /\ IsCont(s, i + 2) /\ IsCont(s, i + 3)
             /\ Utf8From(s, i + 4)
      ELSE IF b = 244
        THEN i + 1 <= Len(s) /\ InRange(s[i + 1], 128, 143)
             /\ IsCont(s, i + 2) /\ IsCont(s, i + 3) /\ Utf8From(s, i + 4)
      ELSE FALSE

\* str::from_utf8(bytes).is_ok()
FromUtf8Ok(s) == Utf8From(s, 1)

\* str.trim_end_matches(|x| x as u32 == 0) on the bytes of a valid string
RECURSIVE TrimEndNul(_)
TrimEndNul(s) ==
    IF EndsWithNul(s) THEN TrimEndNul(Take(s, Len(s) - 1)) ELSE s

----------------------------------------------------------------------------
(* Data types. *)

\* enum CDTextPackType: discriminant -> variant (FromPrimitive::from_u8)
CDTextPackType ==
    (128 :> "Title") @@ (129 :> "Performers") @@ (130 :> "Songwriters") @@
    (131 :> "Composers") @@ (132 :> "Arrangers") @@ (133 :> "Message") @@
    (134 :> "DiscID") @@ (135 :> "Genre") @@ (136 :> "TOC") @@
    (137 :> "AdditionalTOC") @@ (141 :> "ClosedInfo") @@ (142 :> "Code") @@
    (143 :> "BlockSizeInfo")

FromU8(b) == IF b \in DOMAIN CDTextPackType THEN Some(CDTextPackType[b]) ELSE None

\* enum CDTextTrackNumber
WholeAlbum == <<"WholeAlbum">>
Track(n) == <<"Track", n>>

\* struct CDTextEntry with data: CDTextEntryDataType::String(text)
Entry(track, type, text) ==
    [track_number |-> track, entry_type |-> type, data |-> <<"String", text>>]

----------------------------------------------------------------------------
(* The pack decoder. *)

\* parse_pack: the track number of byte 1
TrackOfByte(b) == IF b = 0 THEN WholeAlbum ELSE Track(b)

\* the character position read with a 3-bit mask
CharacterPositionThreeBits(b) == BitAnd(b, 7)

\* parse_pack: bits 0-3 of byte 3
CharacterPosition(b) == BitAnd(b, 15)

\* parse_pack: bits 4-6 of byte 3
BlockNumber(b) == BitAnd(Shr(b, 4), 7)

\* parse_pack: bit 7 of byte 3
IsDoubleByte(b) == BitAnd(Shr(b, 7), 1) # 0

\* the line of parse_pack that indexes past the end of a window of n < 18
\* bytes whose tag is known: subdata[1], [2], [3], [4..16] or [16..18]
IndexPanicLine(n) ==
    IF n < 2 THEN 92 ELSE IF n < 3 THEN 99 ELSE IF n < 4 THEN 102
    ELSE IF n < 16 THEN 110 ELSE 112

\* parse_pack(win), win the subdata argument: <<"Some", pack>>, <<"None">>, or <<"Panic", why>>.
\* debug_assert! is compiled in the debug build only.  In the release build
\* a window shorter than 18 bytes returns None on an unknown tag (byte 0 is
\* read first) and otherwise indexes past its end.
parse_pack(win, bld) ==
    IF bld = "debug" /\ Len(win) # PackLen
    THEN <<"Panic", <<"debug_assert", 86>>>>
    ELSE IF ~IsSome(FromU8(win[1])) THEN None
    ELSE IF Len(win) < PackLen
    THEN <<"Panic", <<"index", IndexPanicLine(Len(win))>>>>
    ELSE Some([pack_type |-> FromU8(win[1])[2],
               track_number |-> TrackOfByte(win[2]),
               seq_counter |-> win[3],
               character_position |-> CharacterPosition(win[4]),
               block_number |-> BlockNumber(win[4]),
               is_double_byte_characters |-> IsDoubleByte(win[4]),
               payload |-> SubSeq(win, 5, 16),
               crc |-> FromBeBytes(win[17], win[18])])

----------------------------------------------------------------------------
(* The pack stream: self.data.chunks(18).map(parse_pack). *)

\* number of windows of slice::chunks(18): the last one may be short
NumChunks(d) == (Len(d) + PackLen - 1) \div PackLen

\* the i-th window (0-based) of chunks(18)
Chunk(d, i) == SubSeq(d, PackLen * i + 1, Min(PackLen * (i + 1), Len(d)))

\* the i-th item of iter_pack_chunks(), None past the end of the iterator
iter_pack_chunks(d, i, bld) ==
    IF i >= NumChunks(d) THEN <<"End">> ELSE <<"Item", parse_pack(Chunk(d, i), bld)>>

----------------------------------------------------------------------------
(* One iteration of the walk of parse (the body of the for loop).          *)

NoPanic == <<"no", 0>>

\* the match with Genre taken for a text category too
IsTextTypeOrGenre(t) ==
    t \in {"Arrangers", "Composers", "Title", "Performers", "Songwriters", "Genre"}

\* the match on pack.pack_type: the five text categories
IsTextType(t) ==
    t \in {"Arrangers", "Composers", "Title", "Performers", "Songwriters"}

\* the split index taken one byte short
SplitIndexOneShort(pack) == SaturatingSub(PayloadLen - 1, pack.character_position)

\* index = 12u8.saturating_sub(pack.character_position)
SplitIndex(pack) == SaturatingSub(PayloadLen, pack.character_position)

\* the two-NUL test widened to two or more NULs
IsDoubleNulOrMore(before) == CountNul(before) >= 2

\* before.iter().filter(|&x| *x == 0).count() == 2
IsDoubleNul(before) == CountNul(before) = 2

\* the track advance of the two-NUL branch; nr + 1 is a u8 addition, which
\* panics in the debug build and wraps in the release build
NextTrack(track, bld) ==
    IF track = WholeAlbum THEN <<"Ok", Track(1)>>
    ELSE IF track[2] + 1 < U8Modulus THEN <<"Ok", Track(track[2] + 1)>>
    ELSE IF bld = "debug" THEN <<"Panic", "overflow">>
    ELSE <<"Ok", Track((track[2] + 1) % U8Modulus)>>

\* the appended slice cut one byte before the trailing NUL run
AppendedSliceOneShort(before, is_terminal) ==
    IF is_terminal /\ IsSome(RevPositionNonNul(before))
    THEN Take(before, Len(before) - RevPositionNonNul(before)[2] - 1)
    ELSE before

\* the slice appended to payload_buffer: `before` without its trailing NUL
\* run when terminal (all of it when every byte is NUL), else `before`
AppendedSlice(before, is_terminal) ==
    IF is_terminal /\ IsSome(RevPositionNonNul(before))
    THEN Take(before, Len(before) - RevPositionNonNul(before)[2])
    ELSE before

\* the two-NUL branch on the state st = [track, before, buf, out, panic];
\* both arms of `if !payload_buffer.is_empty()` push the same entry, and
\* from_utf8 can fail at line 179 only (an empty buffer is valid text)
DoubleNulBranch(st, type, bld) ==
    LET position == PositionNul(st.before)[2]
        buf1 == st.buf \o Take(st.before, position)
        next == NextTrack(st.track, bld)
    IN  IF ~FromUtf8Ok(buf1)
        THEN [st EXCEPT !.panic = <<"utf8", 179>>]
        ELSE IF next[1] = "Panic"
        THEN [st EXCEPT !.panic = <<next[2], 197>>]
        ELSE [track |-> next[2],
              before |-> Drop(st.before, position + 1),
              buf |-> <<>>,
              out |-> Append(st.out, Entry(st.track, type, buf1)),
              panic |-> NoPanic]

\* the append and the terminal flush
TerminalFlush(st, type, is_terminal) ==
    LET buf3 == st.buf \o AppendedSlice(st.before, is_terminal)
    IN  IF ~is_terminal THEN [st EXCEPT !.buf = buf3]
        ELSE IF ~FromUtf8Ok(buf3) THEN [st EXCEPT !.panic = <<"utf8", 227>>]
        ELSE [st EXCEPT !.buf = <<>>,
                        !.out = Append(st.out, Entry(st.track, type, TrimEndNul(buf3)))]

\* the body of the text arm for (prev, pack): the state after line 234
TextArm(prev, pack, buf, out, bld) ==
    LET index == SplitIndex(pack)
        before == Take(prev.payload, index)
        after == Drop(prev.payload, index)
        is_terminal == EndsWithNul(before)
        st0 == [track |-> prev.track_number, before |-> before, buf |-> buf,
                out |-> out, panic |-> NoPanic]
        st1 == IF IsDoubleNul(before) THEN DoubleNulBranch(st0, prev.pack_type, bld)
               ELSE st0
        st2 == IF st1.panic # NoPanic THEN st1
               ELSE TerminalFlush(st1, prev.pack_type, is_terminal)
    IN  IF st2.panic # NoPanic THEN st2
        ELSE [st2 EXCEPT !.buf = st2.buf \o after]

\* the final flush, lines 246-254: <<"Ok", buffer, entries>> or a panic
FinalFlushResult(prev, buf, out) ==
    LET position == PositionNul(prev.payload)
        buf1 == buf \o Take(prev.payload, position[2])
    IN  IF ~IsSome(position) THEN <<"Panic", <<"unwrap_none", 246>>>>
        ELSE IF ~FromUtf8Ok(buf1) THEN <<"Panic", <<"utf8", 252>>>>
        ELSE <<"Ok", buf1, Append(out, Entry(prev.track_number, prev.pack_type, buf1))>>

----------------------------------------------------------------------------
(* parse as a function of the borrowed slice: <<"Ok", entries>> or         *)
(* <<"Panic", why>>.                                                       *)

\* the for loop from window i on, then the final flush
RECURSIVE WalkFrom(_, _, _, _, _, _)
WalkFrom(d, i, prev, buf, out, bld) ==
    LET item == iter_pack_chunks(d, i, bld)
        flushed == FinalFlushResult(prev, buf, out)
    IN  IF item[1] # "End" /\ item[2][1] = "Panic" THEN <<"Panic", item[2][2]>>
        ELSE IF item[1] # "End" /\ item[2][1] = "None"
        THEN <<"Panic", <<"unwrap_none", 141>>>>
        ELSE IF item[1] # "End" /\ IsTextType(item[2][2].pack_type)
        THEN LET st == TextArm(prev, item[2][2], buf, out, bld) IN
             IF st.panic # NoPanic THEN <<"Panic", st.panic>>
             ELSE WalkFrom(d, i + 1, item[2][2], st.buf, st.out, bld)
        ELSE IF flushed[1] = "Panic" THEN flushed
        ELSE <<"Ok", flushed[3]>>

parse(d, bld) ==
    LET first == iter_pack_chunks(d, 0, bld) IN
        IF first[1] = "End" THEN <<"Panic", <<"unwrap_none", 136>>>>
        ELSE IF first[2][1] = "Panic" THEN <<"Panic", first[2][2]>>
        ELSE IF first[2][1] = "None" THEN <<"Panic", <<"unwrap_none", 136>>>>
        ELSE WalkFrom(d, 1, first[2][2], <<>>, <<>>, bld)

----------------------------------------------------------------------------
(* Actions. *)

NoPack == <<"NoPack">>

Panics(why) ==
    /\ pc' = "panic"
    /\ panicked' = why

\* a | b on unsigned integers, bit by bit
RECURSIVE BitOr(_, _)
BitOr(a, b) ==
    IF a = 0 THEN b ELSE IF b = 0 THEN a
    ELSE (IF a % 2 = 1 \/ b % 2 = 1 THEN 1 ELSE 0) + 2 * BitOr(a \div 2, b \div 2)

\* a << n on usize, n small
RECURSIVE Shl(_, _)
Shl(a, n) == IF n = 0 THEN a ELSE Shl(2 * a, n - 1)

\* CDText::from_data
FromData ==
    /\ pc = "new"
    /\ data' = input
    /\ length' = Len(input)
    /\ pc' = "ready"
    /\ UNCHANGED <<returned, build, input, chunk, subdata, decoded, prev_pack,
                   payload_buffer, parsed_data, steps, panicked>>

\* the outcome of CDText::from_data_with_length(d): the usize subtraction
\* panics in the debug build and wraps in the release build.  _length is
\* never read; a wrapped value 2^64 + v - 2 is held as the number v - 2.
from_data_with_length(d, bld) ==
    IF Len(d) < 2 THEN <<"Panic", <<"index", 70>>>>
    ELSE LET v == BitOr(Shl(d[1], 8), d[2]) IN
      IF v < 2 /\ bld = "debug" THEN <<"Panic", <<"overflow", 70>>>>
      ELSE IF Len(d) < HeaderLen THEN <<"Panic", <<"index", 71>>>>
      ELSE <<"Ok", v - 2, Drop(d, HeaderLen)>>

\* CDText::from_data_with_length
FromDataWithLength ==
    /\ pc = "new"
    /\ LET r == from_data_with_length(input, build) IN
         IF r[1] = "Panic" THEN
            Panics(r[2]) /\ UNCHANGED <<data, length>>
         ELSE /\ length' = r[2]
              /\ data' = r[3]
              /\ pc' = "ready"
              /\ UNCHANGED panicked
    /\ UNCHANGED <<returned, build, input, chunk, subdata, decoded, prev_pack,
                   payload_buffer, parsed_data, steps>>

\* a caller of the public iter_pack_chunks() takes the next item
IterNext ==
    /\ pc \in {"ready", "iter"}
    /\ LET item == iter_pack_chunks(data, chunk, build) IN
         IF item[1] = "End" THEN
            /\ pc' = "iterdone"
            /\ UNCHANGED <<chunk, subdata, decoded, panicked>>
         ELSE IF item[2][1] = "Panic" THEN
            /\ Panics(item[2][2])
            /\ subdata' = Chunk(data, chunk)
            /\ UNCHANGED <<chunk, decoded>>
         ELSE /\ decoded' = item[2]
              /\ subdata' = Chunk(data, chunk)
              /\ chunk' = chunk + 1
              /\ pc' = "iter"
              /\ UNCHANGED panicked
    /\ UNCHANGED <<returned, build, input, data, length, prev_pack, payload_buffer,
                   parsed_data, steps>>

\* an accumulation buffer kept from the call before
KeptPayloadBuffer(old) == old

\* let mut payload_buffer: Vec<u8> = Vec::with_capacity(16): a new, empty
\* vector in every call, whatever an earlier call left in its own
NewPayloadBuffer(old) == <<>>

\* parse, lines 135-138: the locals of the call and the first pack
ParseBegin ==
    /\ pc = "ready"
    /\ LET item == iter_pack_chunks(data, 0, build) IN
         IF item[1] = "End" THEN
            Panics(<<"unwrap_none", 136>>) /\ UNCHANGED <<prev_pack, chunk, subdata>>
         ELSE IF item[2][1] = "Panic" THEN
            /\ Panics(item[2][2])
            /\ subdata' = Chunk(data, 0)
            /\ UNCHANGED <<prev_pack, chunk>>
         ELSE IF item[2][1] = "None" THEN
            /\ Panics(<<"unwrap_none", 136>>)
            /\ subdata' = Chunk(data, 0)
            /\ UNCHANGED <<prev_pack, chunk>>
         ELSE /\ prev_pack' = item[2][2]
              /\ subdata' = Chunk(data, 0)
              /\ chunk' = 1
              /\ pc' = "walk"
              /\ UNCHANGED panicked
    /\ payload_buffer' = NewPayloadBuffer(payload_buffer)
    /\ parsed_data' = <<>>
    /\ steps' = 0
    /\ UNCHANGED <<returned, build, input, data, length, decoded>>

\* parse, lines 140-242: one iteration of the for loop over skip(1), or
\* its end (the iterator is exhausted, or the break of a non-text pack)
Walk ==
    /\ pc = "walk"
    /\ LET item == iter_pack_chunks(data, chunk, build) IN
         IF item[1] = "End" THEN
            /\ pc' = "flush"
            /\ UNCHANGED <<prev_pack, chunk, subdata, payload_buffer, parsed_data,
                           steps, panicked>>
         ELSE IF item[2][1] = "Panic" THEN
            /\ Panics(item[2][2])
            /\ subdata' = Chunk(data, chunk)
            /\ UNCHANGED <<prev_pack, chunk, payload_buffer, parsed_data, steps>>
         ELSE IF item[2][1] = "None" THEN
            /\ Panics(<<"unwrap_none", 141>>)
            /\ subdata' = Chunk(data, chunk)
            /\ steps' = steps + 1
            /\ UNCHANGED <<prev_pack, chunk, payload_buffer, parsed_data>>
         ELSE IF ~IsTextType(item[2][2].pack_type) THEN
            /\ pc' = "flush"
            /\ subdata' = Chunk(data, chunk)
            /\ steps' = steps + 1
            /\ UNCHANGED <<prev_pack, chunk, payload_buffer, parsed_data, panicked>>
         ELSE LET pack == item[2][2]
                  st == TextArm(prev_pack, pack, payload_buffer, parsed_data, build)
              IN  IF st.panic # NoPanic THEN
                     /\ Panics(st.panic)
                     /\ subdata' = Chunk(data, chunk)
                     /\ steps' = steps + 1
                     /\ UNCHANGED <<prev_pack, chunk, payload_buffer, parsed_data>>
                  ELSE
                     /\ payload_buffer' = st.buf
                     /\ parsed_data' = st.out
                     /\ prev_pack' = pack
                     /\ subdata' = Chunk(data, chunk)
                     /\ chunk' = chunk + 1
                     /\ steps' = steps + 1
                     /\ UNCHANGED <<pc, panicked>>
    /\ UNCHANGED <<returned, build, input, data, length, decoded>>

\* parse, lines 246-262: the final flush and the return of parsed_data
FinalFlush ==
    /\ pc = "flush"
    /\ LET r == FinalFlushResult(prev_pack, payload_buffer, parsed_data) IN
         IF r[1] = "Panic" THEN
            Panics(r[2]) /\ UNCHANGED <<payload_buffer, parsed_data>>
         ELSE /\ payload_buffer' = r[2]
              /\ parsed_data' = r[3]
              /\ pc' = "done"
              /\ UNCHANGED panicked
    /\ UNCHANGED <<returned, build, input, data, length, chunk, subdata, decoded, prev_pack,
                   steps>>

\* the caller takes the Vec returned by parse (line 262) and calls parse
\* again on the same CDText
ParseAgain ==
    /\ pc = "done"
    /\ Len(returned) < MaxCalls - 1
    /\ returned' = Append(returned, parsed_data)
    /\ pc' = "ready"
    /\ UNCHANGED <<build, input, data, length, chunk, subdata, decoded, prev_pack,
                   payload_buffer, parsed_data, steps, panicked>>

----------------------------------------------------------------------------
(* Input buffers. *)

Builds == {"debug", "release"}

\* s followed by as many bytes b as fill the 12-byte payload
Pad(s, b) == s \o [i \in 1..(PayloadLen - Len(s)) |-> b]

\* the 18 bytes of a pack: tag, track, sequence counter, byte 3, payload, CRC
PackBytes(tag, track, byte3, payload) ==
    <<tag, track, 0, byte3>> \o payload \o <<0, 0>>

\* "ABC\0DEFGHIJK": a string ends at byte 3 and the next one runs to the end
PayloadSplit == <<65, 66, 67, 0, 68, 69, 70, 71, 72, 73, 74, 75>>
\* "A\0B\0CDEFGHIJ": two short strings, then the start of a third
PayloadTwoShort == <<65, 0, 66, 0, 67, 68, 69, 70, 71, 72, 73, 74>>
\* "ABCDEFGHIJKL": no NUL
PayloadFull == <<65, 66, 67, 68, 69, 70, 71, 72, 73, 74, 75, 76>>
\* 0xFF "\0B\0CDEFGHI\0": a byte that is never valid UTF-8
PayloadBadText == <<255, 0, 66, 0, 67, 68, 69, 70, 71, 72, 73, 0>>
\* "XYZ" and NUL padding: a single NUL-terminated string
PayloadShort == Pad(<<88, 89, 90>>, 0)
\* "ALBUM TITLE\0": a single string that fills the payload
PayloadAlbumTitle == <<65, 76, 66, 85, 77, 32, 84, 73, 84, 76, 69, 0>>
\* twelve NULs
PayloadEmpty == Pad(<<>>, 0)

\* byte 3 for character position 8, with the double-byte flag and block 1
Byte3Pos8 == 128 + 16 + 8

\* The packs of the buffers of Spec: Title packs (tag 0x80) over raw track
\* bytes, character positions and payloads; a Genre pack (0x87); a pack of
\* unknown tag (0x8a).
PackChoices ==
    {PackBytes(128, t, b, p) :
        t \in {0, 255}, b \in {0, Byte3Pos8}, p \in {PayloadSplit, PayloadShort}}
    \cup {PackBytes(128, t, 0, PayloadTwoShort) : t \in {0, 1, 255}}
    \cup {PackBytes(128, 1, 15, PayloadFull),
          PackBytes(128, 1, 0, PayloadEmpty),
          PackBytes(128, 0, 0, PayloadBadText),
          PackBytes(129, 1, 0, PayloadAlbumTitle),
          PackBytes(135, 1, 0, PayloadShort),
          PackBytes(138, 0, 0, PayloadShort)}

RECURSIVE Flatten(_)
Flatten(ps) == IF ps = <<>> THEN <<>> ELSE Head(ps) \o Flatten(Tail(ps))

InitLocals ==
    /\ build \in Builds
    /\ data = <<>>
    /\ length = 0
    /\ pc = "new"
    /\ chunk = 0
    /\ subdata = <<>>
    /\ decoded = None
    /\ prev_pack = NoPack
    /\ payload_buffer = <<>>
    /\ parsed_data = <<>>
    /\ steps = 0
    /\ panicked = NoPanic
    /\ returned = <<>>

\* buffers of whole packs, read without header
Init ==
    /\ \E n \in 0..MaxPacks : \E ps \in [1..n -> PackChoices] : input = Flatten(ps)
    /\ InitLocals

Next == FromData \/ ParseBegin \/ Walk \/ FinalFlush

Spec == Init /\ [][Next]_vars

----------------------------------------------------------------------------
(* Buffers of fewer packs, parsed up to MaxCalls times.                    *)

InitAgain ==
    /\ \E n \in 0..(MaxPacks - 1) : \E ps \in [1..n -> PackChoices] :
         input = Flatten(ps)
    /\ InitLocals

NextAgain == FromData \/ ParseBegin \/ Walk \/ FinalFlush \/ ParseAgain

SpecAgain == InitAgain /\ [][NextAgain]_vars

----------------------------------------------------------------------------
(* Buffers with the 4-byte header, read by from_data_with_length: a header *)
(* cut short, or a header followed by whole packs or by less than a pack.  *)

\* header bytes: length fields 0, 1, 32 and 0xFFFF, reserved bytes
Headers == {<<0, 0, 0, 0>>, <<0, 1, 7, 9>>, <<0, 32, 0, 0>>, <<255, 255, 0, 0>>}

\* a Title pack for the whole album holding "ALBUM TITLE\0", and an empty
\* Title pack at each of the 16 character positions
HeaderPackChoices ==
    {PackBytes(128, 0, 0, PayloadAlbumTitle)}
    \cup {PackBytes(128, 0, b, PayloadEmpty) : b \in 0..15}

InitHeader ==
    /\ \E h \in Headers :
         \/ \E k \in 0..(HeaderLen - 1) : input = Take(h, k)
         \/ \E n \in 0..MaxPacks : \E ps \in [1..n -> HeaderPackChoices] :
              input = h \o Flatten(ps)
         \/ \E k \in 1..Min(MaxTail, PackLen - 1) :
              input = h \o Take(PackBytes(128, 0, 0, PayloadAlbumTitle), k)
    /\ InitLocals

NextHeader == FromDataWithLength \/ ParseBegin \/ Walk \/ FinalFlush

SpecHeader == InitHeader /\ [][NextHeader]_vars

----------------------------------------------------------------------------
(* Buffers whose length need not be a multiple of 18, iterated or parsed.  *)

StreamPackChoices ==
    {PackBytes(128, 0, 0, PayloadShort), PackBytes(128, 2, 15, PayloadFull),
     PackBytes(135, 1, 0, PayloadShort), PackBytes(138, 0, 0, PayloadShort)}

\* the bytes that follow the last whole pack: the start of a Title pack or
\* of a pack of unknown tag
TailSources == {PackBytes(128, 3, 0, PayloadShort), PackBytes(138, 3, 0, PayloadShort)}

InitStream ==
    /\ \E n \in 0..MaxPacks : \E ps \in [1..n -> StreamPackChoices] :
         \E t \in TailSources : \E k \in 0..Min(MaxTail, PackLen) :
            input = Flatten(ps) \o Take(t, k)
    /\ InitLocals

NextStream == FromData \/ IterNext \/ ParseBegin \/ Walk \/ FinalFlush

SpecStream == InitStream /\ [][NextStream]_vars

----------------------------------------------------------------------------
(* A buffer of one 18-byte window, decoded through the pack stream.        *)

\* tags around the 13 known ones, and the ends of the byte range
TagBytes == (126..145) \cup {0, 255}

InitPack ==
    /\ \E tag \in TagBytes, track \in {0, 7, 255}, b3 \in 0..(U8Modulus - 1),
          crc \in {<<1, 2>>, <<255, 254>>} :
         input = <<tag, track, 5, b3>> \o PayloadSplit \o crc
    /\ InitLocals

NextPack == FromData \/ IterNext

SpecPack == InitPack /\ [][NextPack]_vars

----------------------------------------------------------------------------
(* Properties. *)

\* the item the walk is about to take, and whether it enters the text arm
CurItem == iter_pack_chunks(data, chunk, build)
AtTextStep ==
    /\ pc = "walk"
    /\ CurItem[1] = "Item"
    /\ CurItem[2][1] = "Some"
    /\ IsTextType(CurItem[2][2].pack_type)
\* max(0, 12 - character_position)
SplitAt(pack) ==
    IF pack.character_position >= 12 THEN 0 ELSE 12 - pack.character_position
\* `before` of the step about to be taken
CurBefore == Take(prev_pack.payload, SplitAt(CurItem[2][2]))
\* the pack decoded from window k of the buffer
PackAt(k) == parse_pack(Chunk(data, k), build)[2]

Successor(t) == IF t = WholeAlbum THEN Track(1) ELSE Track(t[2] + 1)

\* C1: a walk step whose `before` holds exactly two NULs emits two entries,
\* the second under the successor of the first's track reference, whether
\* or not `before` ends in NUL.
C1_TwoNulEmitsTwo ==
    [][(AtTextStep /\ CountNul(CurBefore) = 2) =>
         /\ Len(parsed_data') = Len(parsed_data) + 2
         /\ parsed_data'[Len(parsed_data) + 2].track_number =
              Successor(parsed_data'[Len(parsed_data) + 1].track_number)]_vars

\* the inputs of the end-to-end example: the header, the Title pack of the
\* whole album with "ALBUM TITLE\0", an empty continuation at any position
ExampleInputs ==
    {<<0, 32, 0, 0>> \o PackBytes(128, 0, 0, PayloadAlbumTitle)
        \o PackBytes(128, 0, b, PayloadEmpty) : b \in 0..15}

\* C2: the example input parses to the single entry
\* {WholeAlbum, Title, "ALBUM TITLE"}.
C2_EndToEndExample ==
    input \in ExampleInputs =>
        /\ pc # "panic"
        /\ pc = "done" =>
             parsed_data = <<Entry(WholeAlbum, "Title", Take(PayloadAlbumTitle, 11))>>

\* The first of two spanned packs, for the step about to be taken: the
\* window before prev_pack holds a text pack whose payload, from the split
\* index of prev_pack on, is a non-empty NUL-free fragment, and the string
\* starts there (what precedes the split was flushed, or nothing precedes).
SpanFirst ==
    /\ AtTextStep
    /\ chunk >= 2
    /\ IsTextType(PackAt(chunk - 2).pack_type)
    /\ LET p1 == PackAt(chunk - 2).payload
           i2 == SplitAt(prev_pack)
       IN  /\ Drop(p1, i2) # <<>>
           /\ CountNul(Drop(p1, i2)) = 0
           /\ \/ EndsWithNul(Take(p1, i2))
              \/ Take(p1, i2) = <<>> /\ chunk = 2
SpanFrag1 == Drop(PackAt(chunk - 2).payload, SplitAt(prev_pack))

SingleString(p) ==
    /\ IsSome(PositionNul(p))
    /\ CountNul(p) = Len(p) - PositionNul(p)[2]
TextOf(p) == Take(p, PositionNul(p)[2])
NumPacks == Len(data) \div PackLen

\* every pack of the buffer is a text pack at character position 0 whose
\* payload is a single NUL-terminated string of valid text, and no payload
\* that becomes a `before` (all but the last) holds exactly two NULs
SinglePackStrings ==
    /\ Len(data) >= PackLen
    /\ Len(data) % PackLen = 0
    /\ \A k \in 0..(NumPacks - 1) :
         LET w == Chunk(data, k) IN
           /\ w[1] \in 128..132
           /\ w[4] % 16 = 0
           /\ SingleString(SubSeq(w, 5, 16))
           /\ FromUtf8Ok(TextOf(SubSeq(w, 5, 16)))
           /\ k < NumPacks - 1 => CountNul(SubSeq(w, 5, 16)) # 2

\* C4: on such a buffer parse returns one entry per pack, in pack order,
\* with the payload up to its first NUL and the pack's track reference.
C4_OneEntryPerPack ==
    SinglePackStrings =>
        /\ pc # "panic"
        /\ pc = "done" =>
             parsed_data =
               [k \in 1..NumPacks |->
                  LET w == Chunk(data, k - 1) IN
                    Entry(IF w[2] = 0 THEN WholeAlbum ELSE Track(w[2]),
                          CDTextPackType[w[1]], TextOf(SubSeq(w, 5, 16)))]

\* three single-string packs were parsed into three entries, not all alike
C4_Witness ==
    /\ SinglePackStrings
    /\ pc = "done"
    /\ NumPacks = 3
    /\ Len(parsed_data) = 3
    /\ parsed_data[1] # parsed_data[2]
    /\ parsed_data[2].data # parsed_data[3].data

\* C5: the decoder is never given a window shorter than 18 bytes, and the
\* pack stream yields floor(L / 18) items.
C5_PartialWindowDropped ==
    /\ subdata = <<>> \/ Len(subdata) = PackLen
    /\ pc = "iterdone" => chunk = Len(data) \div PackLen

\* C6: parse does not crash on a whole pack whose tag is unknown.
C6_UnknownTagNoCrash ==
    ~(/\ pc = "panic"
      /\ panicked[1] = "unwrap_none"
      /\ Len(subdata) = PackLen
      /\ ~IsSome(FromU8(subdata[1])))

\* C7: a header buffer of fewer than 4 bytes, or pack data of fewer than 18
\* bytes, does not crash the constructor or parse.
C7_UnderrunNoCrash ==
    ~(/\ pc = "panic"
      /\ \/ panicked[2] \in {70, 71} /\ Len(input) < HeaderLen
         \/ panicked[2] \notin {70, 71} /\ chunk = 0 /\ Len(data) < PackLen)

\* C8: accumulated bytes that are not valid text do not crash parse.
C8_InvalidTextNoCrash == ~(pc = "panic" /\ panicked[1] = "utf8")

\* the category the tag byte b stands for
CategoryOfTag(b) ==
    IF b \in 128..137
    THEN <<"Title", "Performers", "Songwriters", "Composers", "Arrangers",
           "Message", "DiscID", "Genre", "TOC", "AdditionalTOC">>[b - 127]
    ELSE <<"ClosedInfo", "Code", "BlockSizeInfo">>[b - 140]

\* C9: on an 18-byte window s the decoder fails iff s[0] is none of the 13
\* known tags, and otherwise reads every field at its fixed offset.
C9_FixedOffsetDecode ==
    (pc = "iter" /\ Len(subdata) = PackLen) =>
        LET s == subdata IN
          IF s[1] \notin (128..137) \cup {141, 142, 143} THEN decoded = None
          ELSE decoded =
                 Some([pack_type |-> CategoryOfTag(s[1]),
                       track_number |-> IF s[2] = 0 THEN WholeAlbum ELSE Track(s[2]),
                       seq_counter |-> s[3],
                       character_position |-> s[4] % 16,
                       block_number |-> (s[4] \div 16) % 8,
                       is_double_byte_characters |-> (s[4] \div 128) % 2 = 1,
                       payload |-> <<s[5], s[6], s[7], s[8], s[9], s[10], s[11],
                                     s[12], s[13], s[14], s[15], s[16]>>,
                       crc |-> 256 * s[17] + s[18]])

\* a pack was decoded whose byte 3 has the flag, a block and a position set
C9_Witness ==
    /\ pc = "iter"
    /\ IsSome(decoded)
    /\ subdata[4] = 219
    /\ decoded[2].character_position = 11
    /\ decoded[2].block_number = 5
    /\ decoded[2].is_double_byte_characters
    /\ decoded[2].track_number = Track(255)
    /\ decoded[2].crc = 65534

\* C10: with at least 4 bytes, header mode gives what from_data gives on
\* the bytes after the header, whatever the header bytes are.
C10_HeaderOnlyStripped ==
    Len(input) >= HeaderLen =>
        LET r == parse(Drop(input, HeaderLen), build) IN
          /\ pc = "panic" => r[1] = "Panic"
          /\ pc = "done" => r = <<"Ok", parsed_data>>

\* WholeAlbum, or Track(n) for n in 1..=99
TrackInRange(t) == t = WholeAlbum \/ (t[1] = "Track" /\ t[2] \in 1..99)

\* C11: every track reference held by a decoded pack or by an emitted entry
\* is WholeAlbum or Track(n) with 1 <= n <= 99.
C11_TrackReferenceInRange ==
    /\ pc \in {"walk", "flush", "done"} => TrackInRange(prev_pack.track_number)
    /\ IsSome(decoded) => TrackInRange(decoded[2].track_number)
    /\ \A k \in 1..Len(parsed_data) : TrackInRange(parsed_data[k].track_number)

\* C11, the track advance alone: an entry never carries Track(0)
C11_AdvanceNeverWraps ==
    \A k \in 1..Len(parsed_data) : parsed_data[k].track_number # Track(0)

\* C12: every call of parse on the same CDText returns the same entry list,
\* and the buffer is what the caller passed, byte for byte, throughout.
C12_ParseIdempotent ==
    /\ pc # "new" => data = input
    /\ \A i, j \in 1..Len(returned) : returned[i] = returned[j]
    /\ (pc = "done" /\ returned # <<>>) => parsed_data = returned[1]
    /\ (pc = "panic" /\ panicked[2] # 0) => returned = <<>>

\* the third call returned: a list of several entries, left by a walk that
\* ended with bytes in the accumulation buffer, was returned three times
C12_Witness ==
    /\ pc = "done"
    /\ Len(returned) = 2
    /\ Len(parsed_data) >= 3
    /\ payload_buffer # <<>>
    /\ parsed_data = returned[2]

\* the buffer is a sequence of decodable packs: whole 18-byte windows, each
\* with one of the 13 known tags
AllDecodable ==
    /\ Len(data) >= PackLen
    /\ Len(data) % PackLen = 0
    /\ \A k \in 0..(NumPacks - 1) :
         Chunk(data, k)[1] \in (128..137) \cup {141, 142, 143}

\* C13: over decodable packs, once the walk has ended the final flush appends
\* exactly one entry, last in the list: the remaining accumulation buffer
\* followed by the last-processed pack's payload up to its first NUL, under
\* that pack's track reference and category; then parse returns.
C13_FinalFlushOnce ==
    [][(pc = "flush" /\ AllDecodable) =>
         /\ pc' = "done"
         /\ parsed_data' =
              Append(parsed_data,
                     Entry(prev_pack.track_number, prev_pack.pack_type,
                           payload_buffer \o TextOf(prev_pack.payload)))]_vars

\* C13 where the last-processed payload holds a NUL and the bytes to flush
\* are valid text
C13_FinalFlushOnceWhenText ==
    [][(/\ pc = "flush"
        /\ AllDecodable
        /\ IsSome(PositionNul(prev_pack.payload))
        /\ FromUtf8Ok(payload_buffer \o TextOf(prev_pack.payload))) =>
         /\ pc' = "done"
         /\ parsed_data' =
              Append(parsed_data,
                     Entry(prev_pack.track_number, prev_pack.pack_type,
                           payload_buffer \o TextOf(prev_pack.payload)))]_vars

\* the five text categories
TextCategories == {"Title", "Performers", "Songwriters", "Composers", "Arrangers"}

\* the walk is about to take a decoded pack of another category
AtNonTextStep ==
    /\ pc = "walk"
    /\ CurItem[1] = "Item"
    /\ CurItem[2][1] = "Some"
    /\ CurItem[2][2].pack_type \notin TextCategories

\* parse has ended after the walk stopped at window `chunk`, a whole pack of
\* a known category that is not a text category
BrokeAt ==
    /\ \/ pc = "done"
       \/ pc = "panic" /\ panicked[2] \in {246, 252}
    /\ chunk >= 1
    /\ Len(data) >= PackLen * (chunk + 1)
    /\ Chunk(data, chunk)[1] \in (133..137) \cup {141, 142, 143}

\* what the call gave: the list returned, or the panic
Outcome == IF pc = "done" THEN <<"Ok", parsed_data>> ELSE <<"Panic", panicked>>

\* C14: a current pack of a non-text category ends the walk without a panic
\* and leaves the entries, the buffer and the last-processed pack as they
\* are; the call then gives what parse gives on the packs before that pack
\* alone, whatever the bytes from that pack on are.
C14_NonTextEndsWalk ==
    /\ [][AtNonTextStep =>
            /\ pc' = "flush"
            /\ UNCHANGED <<parsed_data, payload_buffer, prev_pack, chunk>>]_vars
    /\ [](BrokeAt => Outcome = parse(Take(data, PackLen * chunk), build))

\* parse returned two entries after the walk stopped at the third pack, a
\* Genre pack, which is followed by bytes that are no whole pack
C14_Witness ==
    /\ BrokeAt
    /\ pc = "done"
    /\ chunk = 2
    /\ Chunk(data, 2)[1] = 135
    /\ Len(data) > PackLen * 3
    /\ Len(data) % PackLen # 0
    /\ Len(parsed_data) = 2

\* the bounds of C15 for a buffer of n packs
WalkBounds(n) ==
    /\ steps <= (IF n >= 1 THEN n - 1 ELSE 0)
    /\ Len(parsed_data) <= 2 * steps + (IF pc = "done" THEN 1 ELSE 0)
    /\ pc = "done" =>
         /\ Len(parsed_data) >= 1
         /\ Len(parsed_data) <= 2 * (n - 1) + 1

\* C15: over a buffer of n = floor(L / 18) packs the walk begins at most
\* n - 1 steps, a step emits at most two entries, and the list returned has
\* at least 1 and at most 2 * (n - 1) + 1 entries.
C15_BoundedByLength == WalkBounds(Len(data) \div PackLen)

\* C15 over buffers of whole packs
C15_BoundedByWholePacks ==
    Len(data) % PackLen = 0 => WalkBounds(Len(data) \div PackLen)

\* s without its NUL bytes
StripNul(s) == SelectSeq(s, LAMBDA b : b # 0)

\* the texts of the entries, one after the other
RECURSIVE ConcatTexts(_)
ConcatTexts(out) ==
    IF out = <<>> THEN <<>> ELSE Head(out).data[2] \o ConcatTexts(Tail(out))

\* the payloads of the windows 0..k-1 of the buffer, one after the other
RECURSIVE PayloadsBefore(_)
PayloadsBefore(k) ==
    IF k = 0 THEN <<>>
    ELSE PayloadsBefore(k - 1) \o SubSeq(Chunk(data, k - 1), 5, 16)

\* C16: in a completed run, with k = chunk - 1 the index of the
\* last-processed pack, the entry texts without NULs are the non-NUL payload
\* bytes of packs 0..k-1 in order, then the payload of pack k up to its
\* first NUL; during the walk the entries and the accumulation buffer hold
\* the non-NUL bytes of packs 0..k-1, each once.
C16_ByteConservation ==
    /\ pc \in {"walk", "flush"} =>
         StripNul(ConcatTexts(parsed_data) \o payload_buffer) =
           StripNul(PayloadsBefore(chunk - 1))
    /\ pc = "done" =>
         StripNul(ConcatTexts(parsed_data)) =
           StripNul(PayloadsBefore(chunk - 1)) \o TextOf(prev_pack.payload)

\* a run over three packs completed with three or more entries, one of them
\* with a NUL inside its text
C16_Witness ==
    /\ pc = "done"
    /\ chunk = 3
    /\ Len(parsed_data) >= 3
    /\ \E k \in 1..Len(parsed_data) : CountNul(parsed_data[k].data[2]) > 0
    /\ StripNul(ConcatTexts(parsed_data)) # <<>>

\* C17: every entry of parsed_data carries one of the five text categories
\* and text data.
C17_TextOnlyOutput ==
    \A k \in 1..Len(parsed_data) :
        /\ parsed_data[k].entry_type \in TextCategories
        /\ parsed_data[k].data[1] = "String"

\* C18: no entry text of parsed_data holds a NUL byte.
C18_NulFreeEntries ==
    \A k \in 1..Len(parsed_data) : CountNul(parsed_data[k].data[2]) = 0

====
